---------------------------- MODULE Spec2Model ----------------------------
(***************************************************************************)
(* Model of common/archivingReader.c: archive_init builds a libarchive     *)
(* write handle, a read-disk handle and an entry in a fixed sequence of    *)
(* native calls and returns them in a struct archive_cookie;               *)
(* archive_close releases the three handles it is given.                   *)
(*                                                                         *)
(* Every session (one archive_init call and the archive_close calls made   *)
(* on its cookie) has its own copy of the C locals.  The native library is *)
(* outside the repository: each fallible native call returns ARCHIVE_OK or *)
(* one of ArchiveErrors, and the heap records what was allocated, closed   *)
(* and freed.  The native allocators always return an object.              *)
(***************************************************************************)
EXTENDS Integers, Sequences, FiniteSets, TLC

VARIABLES
    pc,           \* per session: position in archive_init / caller
    filename,     \* archive_init parameter
    client_data,  \* archive_init parameter
    a,            \* archive_init local: struct archive *a
    disk,         \* archive_init local: struct archive *disk
    entry,        \* archive_init local: struct archive_entry *entry
    err,          \* archive_init local: int err
    ret,          \* archive_init local: struct archive_cookie ret
    cookie,       \* the struct archive_cookie the caller received
    heap,         \* native objects: allocated, times closed, times freed
    lastBlock,    \* per encoder: bytes_in_last_block
    sinkOf,       \* per encoder: client_data bound by archive_write_open2
    calls,        \* per session: native calls made, in order
    closed,       \* per session: archive_close calls that returned
    closeRet,     \* per session: value of the last archive_close return
    closeLimit,   \* per session: archive_close calls the caller makes at most
    sinkFails,    \* per session: buffer_write returns a negative value every time
    delivered     \* per encoder: the buffer_write invocations made for it

vars == <<pc, filename, client_data, a, disk, entry, err, ret, cookie, heap,
          lastBlock, sinkOf, calls, closed, closeRet, closeLimit, sinkFails,
          delivered>>

---------------------------------------------------------------------------
(* Bounds and value sets *)

\* archive_close calls a caller makes on one cookie in the single-session runs
MaxCloses == 2

Sessions == {1, 2}

Paths == {"file1", "file2", "missing"}

\* paths archive_read_disk_open cannot open
MissingPaths == {"missing"}

Contexts == {"sink1", "sink2"}

ARCHIVE_OK == 0

\* ARCHIVE_FAILED and ARCHIVE_FATAL: what "err != ARCHIVE_OK" may see
ArchiveErrors == {-25, -30}

\* values archive_write_get_bytes_in_last_block may report after open
LastBlockValues == {-1, 512}

Kinds == {"a", "disk", "entry"}

NULL == <<"NULL", 0>>

\* a field of ret that no statement has assigned yet
UNINIT == <<"uninit", 0>>

Obj(kind, s) == <<kind, s>>

Objects == {Obj(k, s) : k \in Kinds, s \in Sessions}

\* What an uninitialized pointer field may hold when the struct is copied
\* out: the null pointer, or the address of any object of the process (the
\* session's own or another session's, allocated or not: a stale address).
Indeterminate(kind) == {NULL} \cup {Obj(kind, t) : t \in Sessions}

NoCtx == ""

Call(fn, h, x, r) == [fn |-> fn, h |-> h, x |-> x, r |-> r]


---------------------------------------------------------------------------
(* The native library, as archive_init and archive_close use it *)

NewObject == [alloc |-> TRUE, closes |-> 0, frees |-> 0]

NoObject == [alloc |-> FALSE, closes |-> 0, frees |-> 0]

\* archive_write_new / archive_read_disk_new / archive_entry_new
Allocate(h, o) == [h EXCEPT ![o] = NewObject]

\* archive_write_set_format_pax_restricted(a)
FormatResults == {ARCHIVE_OK} \cup ArchiveErrors

\* archive_write_open2(a, client_data, NULL, buffer_write, NULL, NULL): the
\* open callback (third argument) is NULL, so no client callback runs inside
\* the call and its result does not depend on what buffer_write would return
OpenResults == {ARCHIVE_OK} \cup ArchiveErrors

\* archive_read_disk_open(disk, filename): a missing path never opens
DiskOpenResults(path) ==
    IF path \in MissingPaths THEN ArchiveErrors
    ELSE {ARCHIVE_OK} \cup ArchiveErrors

\* archive_read_next_header2(disk, entry)
HeaderResults == {ARCHIVE_OK} \cup ArchiveErrors

CloseFns == {"archive_read_close", "archive_write_close"}

FreeFns == {"archive_entry_free", "archive_read_free", "archive_write_free"}

\* The effect of one close/free call on the heap.  A call on NULL or on an
\* address that holds no allocated object changes no object.
NativeRelease(h, c) ==
    IF c.h \in Objects /\ h[c.h].alloc
    THEN IF c.fn \in CloseFns
         THEN [h EXCEPT ![c.h].closes = @ + 1]
         ELSE [h EXCEPT ![c.h].frees = @ + 1]
    ELSE h

RECURSIVE ApplyCalls(_, _)
ApplyCalls(h, cs) ==
    IF cs = <<>> THEN h
    ELSE ApplyCalls(NativeRelease(h, Head(cs)), Tail(cs))

\* archive_write_header was called on encoder o (archive_init and
\* archive_close never call it: the caller does, between the two)
HeaderWritten(o) ==
    \E s \in Sessions : \E i \in 1..Len(calls[s]) :
        calls[s][i].fn = "archive_write_header" /\ calls[s][i].h = o

\* o is an encoder that archive_write_open2 opened and nothing closed or freed
OpenEncoder(h, o) ==
    /\ o \in Objects
    /\ o[1] = "a"
    /\ h[o].alloc /\ h[o].closes = 0 /\ h[o].frees = 0
    /\ sinkOf[o[2]] # NoCtx

Delivery(o, data) == [ctx |-> sinkOf[o[2]], data |-> data, accepted |-> ~sinkFails[o[2]]]

\* What archive_write_close hands to buffer_write for encoder o: the entry
\* header if one was written, then the end-of-archive blocks; the encoder
\* stops at the first invocation the sink rejects.
Flush(o) ==
    LET all == (IF HeaderWritten(o) THEN << Delivery(o, "header") >> ELSE << >>)
               \o << Delivery(o, "end_of_archive") >>
    IN  IF sinkFails[o[2]] THEN << all[1] >> ELSE all

\* the value a close/free call returns: archive_write_close fails when the
\* sink rejected its output
NativeResult(h, c) ==
    IF c.fn = "archive_write_close" /\ OpenEncoder(h, c.h) /\ sinkFails[c.h[2]]
    THEN -30
    ELSE ARCHIVE_OK

\* the sink invocations after call c
Deliver(h, d, c) ==
    IF c.fn = "archive_write_close" /\ OpenEncoder(h, c.h)
    THEN [d EXCEPT ![c.h[2]] = @ \o Flush(c.h)]
    ELSE d

\* The calls cs made in order: the heap, the sink invocations and the calls
\* with the values they returned.
RECURSIVE RunCalls(_, _)
RunCalls(st, cs) ==
    IF cs = <<>> THEN st
    ELSE LET c == Head(cs) IN
         RunCalls([heap      |-> NativeRelease(st.heap, c),
                   delivered |-> Deliver(st.heap, st.delivered, c),
                   log       |-> Append(st.log, [c EXCEPT !.r = NativeResult(st.heap, c)])],
                  Tail(cs))

---------------------------------------------------------------------------
(* archive_init *)

\* Failed, as a test that lets every error but ARCHIVE_FATAL through
Failed_OnlyFatal(e) == e = -30

\* if (err != ARCHIVE_OK)
Failed(e) == e # ARCHIVE_OK

\* struct archive_cookie ret;  ret.err = ARCHIVE_OK;
FreshCookie == [err |-> ARCHIVE_OK, a |-> UNINIT, disk |-> UNINIT, entry |-> UNINIT]

\* The struct as the caller receives it: an unassigned field holds whatever
\* was in its storage.
CopyOut(r, ga, gd, ge) ==
    [err   |-> r.err,
     a     |-> IF r.a = UNINIT THEN ga ELSE r.a,
     disk  |-> IF r.disk = UNINIT THEN gd ELSE r.disk,
     entry |-> IF r.entry = UNINIT THEN ge ELSE r.entry]

\* return ret;
Return(s, r) ==
    /\ ret' = [ret EXCEPT ![s] = r]
    /\ \E ga \in Indeterminate("a"), gd \in Indeterminate("disk"),
          ge \in Indeterminate("entry") :
          cookie' = [cookie EXCEPT ![s] = CopyOut(r, ga, gd, ge)]
    /\ pc' = [pc EXCEPT ![s] = "returned"]

\* CheckedStep without its return: the failure is recorded and the next
\* step runs all the same
CheckedStep_NoReturn(s, r, next) ==
    /\ err' = [err EXCEPT ![s] = r]
    /\ pc' = [pc EXCEPT ![s] = next]
    /\ ret' = [ret EXCEPT ![s].err = IF Failed(r) THEN r ELSE @]
    /\ UNCHANGED cookie

\* CheckedStep storing the encoder in the cookie before an early return
CheckedStep_Populate(s, r, next) ==
    /\ err' = [err EXCEPT ![s] = r]
    /\ IF Failed(r)
       THEN Return(s, [ret[s] EXCEPT !.err = r, !.a = a[s]])
       ELSE /\ pc' = [pc EXCEPT ![s] = next]
            /\ UNCHANGED <<ret, cookie>>

\* CheckedStep reporting every failure as ARCHIVE_FATAL
CheckedStep_AlwaysFatal(s, r, next) ==
    /\ err' = [err EXCEPT ![s] = r]
    /\ IF Failed(r)
       THEN Return(s, [ret[s] EXCEPT !.err = -30])
       ELSE /\ pc' = [pc EXCEPT ![s] = next]
            /\ UNCHANGED <<ret, cookie>>

\* err = <call>; if (err != ARCHIVE_OK) { ret.err = err; return ret; }
CheckedStep(s, r, next) ==
    /\ err' = [err EXCEPT ![s] = r]
    /\ IF Failed(r)
       THEN Return(s, [ret[s] EXCEPT !.err = r])
       ELSE /\ pc' = [pc EXCEPT ![s] = next]
            /\ UNCHANGED <<ret, cookie>>

Log(s, c) == calls' = [calls EXCEPT ![s] = Append(@, c)]

\* lines 5-12: declarations, ret.err = ARCHIVE_OK, a = archive_write_new()
init_write_new(s) ==
    /\ pc[s] = "idle"
    /\ ret' = [ret EXCEPT ![s] = FreshCookie]
    /\ err' = [err EXCEPT ![s] = ARCHIVE_OK]
    /\ a' = [a EXCEPT ![s] = Obj("a", s)]
    /\ heap' = Allocate(heap, Obj("a", s))
    /\ Log(s, Call("archive_write_new", Obj("a", s), NoCtx, ARCHIVE_OK))
    /\ pc' = [pc EXCEPT ![s] = "set_format"]
    /\ UNCHANGED <<filename, client_data, disk, entry, cookie, lastBlock,
                   sinkOf, closed, closeRet, closeLimit,
                   sinkFails, delivered>>

\* lines 13-17
init_set_format(s) ==
    /\ pc[s] = "set_format"
    /\ \E r \in FormatResults :
          /\ Log(s, Call("archive_write_set_format_pax_restricted", a[s], NoCtx, r))
          /\ CheckedStep(s, r, "open")
    /\ UNCHANGED <<filename, client_data, a, disk, entry, heap, lastBlock,
                   sinkOf, closed, closeRet, closeLimit,
                   sinkFails, delivered>>

\* SinkArg passing one fixed context whatever the caller gave
SinkArg_Fixed(s) == "sink1"

\* line 19: (void*)client_data, the second argument of archive_write_open2
SinkArg(s) == client_data[s]

\* lines 19-23
init_write_open(s) ==
    /\ pc[s] = "open"
    /\ \E r \in OpenResults :
          /\ Log(s, Call("archive_write_open2", a[s], SinkArg(s), r))
          /\ CheckedStep(s, r, "last_block")
          /\ IF r = ARCHIVE_OK
             THEN /\ sinkOf' = [sinkOf EXCEPT ![s] = SinkArg(s)]
                  /\ \E b \in LastBlockValues :
                        lastBlock' = [lastBlock EXCEPT ![s] = b]
             ELSE UNCHANGED <<sinkOf, lastBlock>>
    /\ UNCHANGED <<filename, client_data, a, disk, entry, heap, closed,
                   closeRet, closeLimit,
                   sinkFails, delivered>>

\* init_last_block forcing the last-block size to 1 whatever the encoder
\* reports
init_last_block_Always(s) ==
    /\ pc[s] = "last_block"
    /\ lastBlock' = [lastBlock EXCEPT ![s] = 1]
    /\ calls' = [calls EXCEPT ![s] = @ \o
         << Call("archive_write_get_bytes_in_last_block", a[s], NoCtx, lastBlock[s]),
            Call("archive_write_set_bytes_in_last_block", a[s], NoCtx, 1) >>]
    /\ pc' = [pc EXCEPT ![s] = "disk_open"]
    /\ UNCHANGED <<filename, client_data, a, disk, entry, err, ret, cookie,
                   heap, sinkOf, closed, closeRet, closeLimit, sinkFails,
                   delivered>>

\* lines 25-27
init_last_block(s) ==
    /\ pc[s] = "last_block"
    /\ IF -1 = lastBlock[s]
       THEN /\ lastBlock' = [lastBlock EXCEPT ![s] = 1]
            /\ calls' = [calls EXCEPT ![s] = @ \o
                 << Call("archive_write_get_bytes_in_last_block", a[s], NoCtx, lastBlock[s]),
                    Call("archive_write_set_bytes_in_last_block", a[s], NoCtx, 1) >>]
       ELSE /\ UNCHANGED lastBlock
            /\ Log(s, Call("archive_write_get_bytes_in_last_block", a[s], NoCtx, lastBlock[s]))
    /\ pc' = [pc EXCEPT ![s] = "disk_open"]
    /\ UNCHANGED <<filename, client_data, a, disk, entry, err, ret, cookie,
                   heap, sinkOf, closed, closeRet, closeLimit,
                   sinkFails, delivered>>

\* init_disk_open unwinding on failure: the cursor object is freed before
\* the early return
init_disk_open_Rollback(s) ==
    /\ pc[s] = "disk_open"
    /\ disk' = [disk EXCEPT ![s] = Obj("disk", s)]
    /\ \E r \in DiskOpenResults(filename[s]) :
          /\ heap' = IF Failed(r)
                     THEN [heap EXCEPT ![Obj("disk", s)] =
                             [alloc |-> TRUE, closes |-> 0, frees |-> 1]]
                     ELSE Allocate(heap, Obj("disk", s))
          /\ calls' = [calls EXCEPT ![s] = @ \o
               << Call("archive_read_disk_new", Obj("disk", s), NoCtx, ARCHIVE_OK),
                  Call("archive_read_disk_open", Obj("disk", s), filename[s], r) >>]
          /\ CheckedStep(s, r, "next_header")
    /\ UNCHANGED <<filename, client_data, a, entry, lastBlock, sinkOf, closed,
                   closeRet, closeLimit, sinkFails, delivered>>

\* lines 29-34
init_disk_open(s) ==
    /\ pc[s] = "disk_open"
    /\ disk' = [disk EXCEPT ![s] = Obj("disk", s)]
    /\ heap' = Allocate(heap, Obj("disk", s))
    /\ \E r \in DiskOpenResults(filename[s]) :
          /\ calls' = [calls EXCEPT ![s] = @ \o
               << Call("archive_read_disk_new", Obj("disk", s), NoCtx, ARCHIVE_OK),
                  Call("archive_read_disk_open", Obj("disk", s), filename[s], r) >>]
          /\ CheckedStep(s, r, "next_header")
    /\ UNCHANGED <<filename, client_data, a, entry, lastBlock, sinkOf, closed,
                   closeRet, closeLimit,
                   sinkFails, delivered>>

\* lines 36-41
init_next_header(s) ==
    /\ pc[s] = "next_header"
    /\ entry' = [entry EXCEPT ![s] = Obj("entry", s)]
    /\ heap' = Allocate(heap, Obj("entry", s))
    /\ \E r \in HeaderResults :
          /\ calls' = [calls EXCEPT ![s] = @ \o
               << Call("archive_entry_new", Obj("entry", s), NoCtx, ARCHIVE_OK),
                  Call("archive_read_next_header2", disk[s], NoCtx, r) >>]
          /\ CheckedStep(s, r, "assign")
    /\ UNCHANGED <<filename, client_data, a, disk, lastBlock, sinkOf, closed,
                   closeRet, closeLimit,
                   sinkFails, delivered>>

\* init_assign writing the entry header to the encoder before it returns
init_assign_WritesHeader(s) ==
    /\ pc[s] = "assign"
    /\ Log(s, Call("archive_write_header", a[s], NoCtx, ARCHIVE_OK))
    /\ Return(s, [ret[s] EXCEPT !.a = a[s], !.disk = disk[s], !.entry = entry[s]])
    /\ UNCHANGED <<filename, client_data, a, disk, entry, err, heap, lastBlock,
                   sinkOf, closed, closeRet, closeLimit, sinkFails, delivered>>

\* lines 43-47: ret.a = a; ret.disk = disk; ret.entry = entry; return ret;
init_assign(s) ==
    /\ pc[s] = "assign"
    /\ Return(s, [ret[s] EXCEPT !.a = a[s], !.disk = disk[s], !.entry = entry[s]])
    /\ UNCHANGED <<filename, client_data, a, disk, entry, err, heap, lastBlock,
                   sinkOf, calls, closed, closeRet, closeLimit,
                   sinkFails, delivered>>

---------------------------------------------------------------------------
(* archive_close *)

\* CloseCalls releasing the encoder before the cursor and the entry
CloseCalls_EncoderFirst(pa, pdisk, pentry) ==
    << Call("archive_write_close", pa, NoCtx, ARCHIVE_OK),
       Call("archive_write_free", pa, NoCtx, ARCHIVE_OK),
       Call("archive_read_close", pdisk, NoCtx, ARCHIVE_OK),
       Call("archive_read_free", pdisk, NoCtx, ARCHIVE_OK),
       Call("archive_entry_free", pentry, NoCtx, ARCHIVE_OK) >>

\* CloseCalls testing its arguments: no call is made on a NULL handle
CloseCalls_Guarded(pa, pdisk, pentry) ==
    (IF pentry # NULL
     THEN << Call("archive_entry_free", pentry, NoCtx, ARCHIVE_OK) >> ELSE << >>)
    \o (IF pdisk # NULL
        THEN << Call("archive_read_close", pdisk, NoCtx, ARCHIVE_OK),
                Call("archive_read_free", pdisk, NoCtx, ARCHIVE_OK) >> ELSE << >>)
    \o (IF pa # NULL
        THEN << Call("archive_write_close", pa, NoCtx, ARCHIVE_OK),
                Call("archive_write_free", pa, NoCtx, ARCHIVE_OK) >> ELSE << >>)

\* lines 52-56: the native calls of archive_close(a, disk, entry), in order
CloseCalls(pa, pdisk, pentry) ==
    << Call("archive_entry_free", pentry, NoCtx, ARCHIVE_OK),
       Call("archive_read_close", pdisk, NoCtx, ARCHIVE_OK),
       Call("archive_read_free", pdisk, NoCtx, ARCHIVE_OK),
       Call("archive_write_close", pa, NoCtx, ARCHIVE_OK),
       Call("archive_write_free", pa, NoCtx, ARCHIVE_OK) >>

\* The caller closes the session it holds: archive_close receives the
\* cookie's three handles by value and returns ARCHIVE_OK (line 58).
archive_close(s) ==
    /\ pc[s] = "returned"
    /\ closed[s] < closeLimit[s]
    /\ LET cs == CloseCalls(cookie[s].a, cookie[s].disk, cookie[s].entry)
           run == RunCalls([heap |-> heap, delivered |-> delivered, log |-> <<>>], cs)
       IN  /\ heap' = ApplyCalls(heap, cs)
           /\ delivered' = run.delivered
           /\ calls' = [calls EXCEPT ![s] = @ \o run.log]
    /\ closed' = [closed EXCEPT ![s] = @ + 1]
    /\ closeRet' = [closeRet EXCEPT ![s] = ARCHIVE_OK]
    /\ UNCHANGED <<pc, filename, client_data, a, disk, entry, err, ret, cookie,
                   lastBlock, sinkOf, closeLimit, sinkFails>>

---------------------------------------------------------------------------
(* Specifications *)

\* Nothing has run: the locals and the cookie are unassigned storage.
InitCommon ==
    /\ a = [s \in Sessions |-> UNINIT]
    /\ disk = [s \in Sessions |-> UNINIT]
    /\ entry = [s \in Sessions |-> UNINIT]
    /\ err = [s \in Sessions |-> ARCHIVE_OK]
    /\ ret = [s \in Sessions |-> FreshCookie]
    /\ cookie = [s \in Sessions |-> FreshCookie]
    /\ heap = [o \in Objects |-> NoObject]
    /\ lastBlock = [s \in Sessions |-> -1]
    /\ sinkOf = [s \in Sessions |-> NoCtx]
    /\ calls = [s \in Sessions |-> <<>>]
    /\ closed = [s \in Sessions |-> 0]
    /\ closeRet = [s \in Sessions |-> ARCHIVE_OK]
    /\ delivered = [s \in Sessions |-> <<>>]

\* One caller: session 1 archives any path to any sink, working or always
\* failing, and may close its cookie up to MaxCloses times; session 2 never
\* starts.
Init ==
    /\ InitCommon
    /\ pc = [s \in Sessions |-> IF s = 1 THEN "idle" ELSE "off"]
    /\ filename \in {f \in [Sessions -> Paths] : f[2] = "file2"}
    /\ client_data \in {c \in [Sessions -> Contexts] : c[2] = "sink2"}
    /\ closeLimit = [s \in Sessions |-> MaxCloses]
    /\ sinkFails \in {f \in [Sessions -> BOOLEAN] : ~f[2]}

\* Two callers on independent paths and independent sinks, each closing its
\* cookie once.
InitPair ==
    /\ InitCommon
    /\ pc = [s \in Sessions |-> "idle"]
    /\ filename = [s \in Sessions |-> IF s = 1 THEN "file1" ELSE "file2"]
    /\ client_data = [s \in Sessions |-> IF s = 1 THEN "sink1" ELSE "sink2"]
    /\ closeLimit = [s \in Sessions |-> 1]
    /\ sinkFails = [s \in Sessions |-> FALSE]

Next ==
    \E s \in Sessions :
        \/ init_write_new(s)
        \/ init_set_format(s)
        \/ init_write_open(s)
        \/ init_last_block(s)
        \/ init_disk_open(s)
        \/ init_next_header(s)
        \/ init_assign(s)
        \/ archive_close(s)

Spec == Init /\ [][Next]_vars

SpecPair == InitPair /\ [][Next]_vars

---------------------------------------------------------------------------
(* Type invariant *)

Handles == {NULL, UNINIT} \cup Objects

TypeOK ==
    /\ pc \in [Sessions -> {"off", "idle", "set_format", "open", "last_block",
                            "disk_open", "next_header", "assign", "returned"}]
    /\ \A s \in Sessions :
          /\ cookie[s].a \in Handles
          /\ cookie[s].disk \in Handles
          /\ cookie[s].entry \in Handles
          /\ closed[s] <= closeLimit[s]

---------------------------------------------------------------------------
(* What a session's call record says about it *)

FormatStep == "archive_write_set_format_pax_restricted"

SinkOpenStep == "archive_write_open2"

DiskOpenStep == "archive_read_disk_open"

HeaderStep == "archive_read_next_header2"

Fallible == {FormatStep, SinkOpenStep, DiskOpenStep, HeaderStep}

IsFailure(c) == c.fn \in Fallible /\ c.r # ARCHIVE_OK

IsRelease(c) == c.fn \in CloseFns \cup FreeFns

Failures(s) == SelectSeq(calls[s], IsFailure)

\* the fallible call that failed first, "none" when none failed
FailStep(s) == IF Failures(s) = <<>> THEN "none" ELSE Failures(s)[1].fn

\* the result of that call, ARCHIVE_OK when none failed
FirstFailure(s) == IF Failures(s) = <<>> THEN ARCHIVE_OK ELSE Failures(s)[1].r

Succeeded(s, fn) ==
    \E i \in 1..Len(calls[s]) : calls[s][i].fn = fn /\ calls[s][i].r = ARCHIVE_OK

Returned(s) == pc[s] = "returned"

\* archive_init returned a status other than OK and nothing was closed yet
FailedInit(s) == Returned(s) /\ cookie[s].err # ARCHIVE_OK /\ closed[s] = 0

Releases(s) == SelectSeq(calls[s], IsRelease)

---------------------------------------------------------------------------
(* Claims *)

\* C1: whenever archive_init returns a status other than OK, the handles
\* constructed before the failing step are in the returned cookie: the
\* encoder after a sink-open, disk-open or header-read failure, and the
\* cursor too after a header-read failure.
C1_ConstructedHandlesReturned ==
    \A s \in Sessions :
        FailedInit(s) =>
            /\ FailStep(s) \in {SinkOpenStep, DiskOpenStep, HeaderStep}
                  => cookie[s].a = a[s]
            /\ FailStep(s) = HeaderStep => cookie[s].disk = disk[s]

\* C2: whenever archive_init returns a status other than OK, every cookie
\* field whose resource was not constructed is NULL: cursor and entry after a
\* format or sink-open failure, cursor after a disk-open failure, entry after
\* a header-read failure.
C2_UnconstructedHandlesNull ==
    \A s \in Sessions :
        FailedInit(s) =>
            /\ FailStep(s) \in {FormatStep, SinkOpenStep}
                  => cookie[s].disk = NULL /\ cookie[s].entry = NULL
            /\ FailStep(s) = DiskOpenStep => cookie[s].disk = NULL
            /\ FailStep(s) = HeaderStep => cookie[s].entry = NULL

\* C3: after archive_init (whatever its outcome) and one archive_close on
\* the returned cookie, every object archive_init allocated has been freed
\* exactly once, and the encoder has been write-closed exactly once.
C3_OneCloseReleasesAll ==
    \A s \in Sessions :
        closed[s] = 1 =>
            /\ \A k \in Kinds :
                  heap[Obj(k, s)].alloc => heap[Obj(k, s)].frees = 1
            /\ heap[Obj("a", s)].alloc => heap[Obj("a", s)].closes = 1

\* C4: archive_close makes no native close or free call on a handle that is
\* absent (NULL) in the session, releases every handle that is present, and
\* returns success.
C4_CloseSkipsAbsentHandles ==
    \A s \in Sessions :
        /\ \A i \in 1..Len(calls[s]) :
              IsRelease(calls[s][i]) => calls[s][i].h # NULL
        /\ closed[s] >= 1 =>
              /\ closeRet[s] = ARCHIVE_OK
              /\ \A h \in {cookie[s].a, cookie[s].disk, cookie[s].entry} :
                    (h \in Objects /\ heap[h].alloc) => heap[h].frees >= 1

\* C5: after the first archive_close on a session whose archive_init
\* succeeded, the session's three handles are NULL, so no object is released
\* again by a second archive_close.
C5_CloseNullsHandles ==
    \A s \in Sessions :
        (Returned(s) /\ cookie[s].err = ARCHIVE_OK /\ closed[s] >= 1) =>
            /\ cookie[s].a = NULL
            /\ cookie[s].disk = NULL
            /\ cookie[s].entry = NULL
            /\ \A k \in Kinds : heap[Obj(k, s)].frees <= 1

ReleaseOrder ==
    << "archive_entry_free", "archive_read_close", "archive_read_free",
       "archive_write_close", "archive_write_free" >>

\* C6: every archive_close releases in one fixed order: the entry is freed,
\* then the cursor is read-closed and freed, then the encoder is
\* write-closed and freed, each on the handle the session holds.
C6_CloseOrder ==
    \A s \in Sessions :
        LET rel == Releases(s) IN
        /\ Len(rel) = Len(ReleaseOrder) * closed[s]
        /\ \A i \in 1..Len(rel) :
              LET j == ((i - 1) % Len(ReleaseOrder)) + 1 IN
              /\ rel[i].fn = ReleaseOrder[j]
              /\ rel[i].h = CASE j = 1 -> cookie[s].entry
                              [] j \in {2, 3} -> cookie[s].disk
                              [] OTHER -> cookie[s].a

\* a session whose archive_init succeeded has been closed
C6_Witness ==
    \E s \in Sessions :
        /\ closed[s] >= 1
        /\ cookie[s].err = ARCHIVE_OK
        /\ heap[Obj("entry", s)].frees = 1
        /\ heap[Obj("a", s)].frees = 1

\* C7: archive_init returns ARCHIVE_OK exactly when all four fallible calls
\* (format, sink open, disk open, header read) returned ARCHIVE_OK, and then
\* the cookie holds the three objects this call allocated.
C7_OkIffAllSucceed ==
    \A s \in Sessions :
        Returned(s) =>
            /\ cookie[s].err = ARCHIVE_OK <=> \A fn \in Fallible : Succeeded(s, fn)
            /\ cookie[s].err = ARCHIVE_OK =>
                  /\ cookie[s].a = Obj("a", s)
                  /\ cookie[s].disk = Obj("disk", s)
                  /\ cookie[s].entry = Obj("entry", s)
                  /\ \A k \in Kinds : heap[Obj(k, s)].alloc
                  /\ Succeeded(s, "archive_write_new")
                  /\ Succeeded(s, "archive_read_disk_new")
                  /\ Succeeded(s, "archive_entry_new")

\* archive_init has returned ARCHIVE_OK with all three handles
C7_Witness ==
    \E s \in Sessions :
        /\ Returned(s)
        /\ closed[s] = 0
        /\ cookie[s].err = ARCHIVE_OK
        /\ cookie[s].entry = Obj("entry", s)

InitOrder ==
    << "archive_write_new", FormatStep, SinkOpenStep,
       "archive_write_get_bytes_in_last_block", "archive_read_disk_new",
       DiskOpenStep, "archive_entry_new", HeaderStep >>

IsNotFix(c) == c.fn # "archive_write_set_bytes_in_last_block"

\* C8: until archive_close is called, the native calls of a session are a
\* prefix of the fixed sequence format, sink open, last-block fix, disk open,
\* header read (each at most once); a fallible call that failed is the last
\* call made; and no object has been closed or freed.
C8_StrictOrderNoRollback ==
    \A s \in Sessions :
        closed[s] = 0 =>
            LET steps == SelectSeq(calls[s], IsNotFix) IN
            /\ Len(steps) <= Len(InitOrder)
            /\ \A i \in 1..Len(steps) : steps[i].fn = InitOrder[i]
            /\ \A i \in 1..Len(calls[s]) :
                  /\ IsFailure(calls[s][i]) => i = Len(calls[s]) /\ Returned(s)
                  /\ ~IsNotFix(calls[s][i]) =>
                        /\ i > 1
                        /\ calls[s][i - 1].fn = "archive_write_get_bytes_in_last_block"
                  /\ ~IsRelease(calls[s][i])
            /\ \A k \in Kinds :
                  heap[Obj(k, s)].closes = 0 /\ heap[Obj(k, s)].frees = 0

\* archive_init has returned at a failed disk open: the header read never ran
C8_Witness ==
    \E s \in Sessions :
        /\ FailedInit(s)
        /\ FailStep(s) = DiskOpenStep
        /\ heap[Obj("disk", s)].alloc
        /\ ~heap[Obj("entry", s)].alloc

\* C9: once ret.err holds a failure value it never changes; at every point
\* of archive_init it is the result of the first failing call, or ARCHIVE_OK
\* when none has failed; and the caller receives that value.
C9_FirstFailureWins ==
    /\ [][\A s \in Sessions :
            (pc[s] \notin {"off", "idle"} /\ ret[s].err # ARCHIVE_OK)
                => ret'[s].err = ret[s].err]_vars
    /\ [](\A s \in Sessions :
            /\ pc[s] \notin {"off", "idle"} => ret[s].err = FirstFailure(s)
            /\ Returned(s) => cookie[s].err = ret[s].err)

\* archive_init has returned the result of a failed sink open
C9_Witness ==
    \E s \in Sessions :
        /\ FailedInit(s)
        /\ FailStep(s) = SinkOpenStep
        /\ cookie[s].err = FirstFailure(s)
        /\ Succeeded(s, FormatStep)

\* C10: the failing step is identifiable from the returned status: two
\* archive_init calls that failed at different steps return different
\* status values.
C10_StatusIdentifiesStep ==
    \A s, t \in Sessions :
        (FailedInit(s) /\ FailedInit(t) /\ FailStep(s) # FailStep(t))
            => cookie[s].err # cookie[t].err

GetLastBlock == "archive_write_get_bytes_in_last_block"

SetLastBlock == "archive_write_set_bytes_in_last_block"

IndexOf(s, fn) == CHOOSE i \in 1..Len(calls[s]) : calls[s][i].fn = fn

Called(s, fn) == \E i \in 1..Len(calls[s]) : calls[s][i].fn = fn

\* C11: when the encoder reports -1 after a successful sink open,
\* archive_init sets the last-block size to 1 right after reading it, before
\* the cursor is constructed and with no header or data written; when it
\* reports another value the size is left as reported; and the fix is never
\* applied when format configuration or sink open failed.
C11_LastBlockFix ==
    \A s \in Sessions :
        /\ Called(s, GetLastBlock) =>
              LET i == IndexOf(s, GetLastBlock) IN
              /\ Succeeded(s, SinkOpenStep)
              /\ calls[s][i].r = -1 =>
                    /\ Len(calls[s]) > i
                    /\ calls[s][i + 1].fn = SetLastBlock
                    /\ calls[s][i + 1].r = 1
                    /\ lastBlock[s] = 1
              /\ calls[s][i].r # -1 =>
                    /\ ~Called(s, SetLastBlock)
                    /\ lastBlock[s] = calls[s][i].r
              /\ \A j \in 1..i :
                    calls[s][j].fn \notin {"archive_read_disk_new", DiskOpenStep,
                                           "archive_write_header", "archive_write_data"}
        /\ Called(s, "archive_read_disk_new") => Called(s, GetLastBlock)
        /\ FailStep(s) \in {FormatStep, SinkOpenStep} =>
              ~Called(s, GetLastBlock) /\ ~Called(s, SetLastBlock)
        /\ Called(s, SetLastBlock) => Called(s, GetLastBlock)

\* the encoder reported -1 and the cursor was constructed after the fix
C11_Witness ==
    \E s \in Sessions :
        /\ Called(s, SetLastBlock)
        /\ Called(s, "archive_read_disk_new")
        /\ lastBlock[s] = 1

\* the encoder reported a fixed size, which archive_init left alone
C11_WitnessUnchanged ==
    \E s \in Sessions :
        /\ Called(s, "archive_read_disk_new")
        /\ lastBlock[s] = 512

\* C12: with a sink callback that returns a negative value on every
\* invocation, archive_init (its format configuration having succeeded)
\* fails at the sink-open step: the status is not OK, the failing call is
\* archive_write_open2, and no cursor was constructed.
C12_FailingSinkFailsOpen ==
    \A s \in Sessions :
        (sinkFails[s] /\ Returned(s) /\ Succeeded(s, FormatStep)) =>
            /\ cookie[s].err # ARCHIVE_OK
            /\ FailStep(s) = SinkOpenStep
            /\ ~Called(s, "archive_read_disk_new")

\* archive_init ran on a readable path, all four fallible calls succeeded,
\* and the caller closed the cookie without doing anything in between
InitThenClose(s) ==
    /\ filename[s] \notin MissingPaths
    /\ Returned(s)
    /\ \A fn \in Fallible : Succeeded(s, fn)
    /\ closed[s] >= 1

\* C13 as stated: archive_init followed immediately by archive_close on a
\* readable path yields ARCHIVE_OK and the first data delivered to the sink
\* is the entry's archive header.
C13_HeaderDeliveredFirst ==
    \A s \in Sessions :
        InitThenClose(s) =>
            /\ cookie[s].err = ARCHIVE_OK
            /\ delivered[s] # <<>>
            /\ delivered[s][1].data = "header"

\* C13 as amended: archive_init followed immediately by archive_close on a
\* readable path, the four fallible calls having succeeded, yields
\* ARCHIVE_OK with no entry header written: neither function calls
\* archive_write_header, and the sink receives only the end-of-archive
\* output of archive_write_close.
C13_NoHeaderWithoutCaller ==
    \A s \in Sessions :
        InitThenClose(s) =>
            /\ cookie[s].err = ARCHIVE_OK
            /\ ~Called(s, "archive_write_header")
            /\ delivered[s] # <<>>
            /\ \A i \in 1..Len(delivered[s]) : delivered[s][i].data = "end_of_archive"

\* a successful session was closed and its encoder flushed to the sink
C13_Witness ==
    \E s \in Sessions :
        /\ InitThenClose(s)
        /\ closed[s] = 1
        /\ Len(delivered[s]) = 1
        /\ heap[Obj("a", s)].closes = 1

\* C14: the encoder is bound to the sink with exactly the client_data value
\* archive_init was given, and every buffer_write invocation made for that
\* encoder receives that value.
C14_ContextForwarded ==
    \A s \in Sessions :
        /\ \A i \in 1..Len(calls[s]) :
              calls[s][i].fn = SinkOpenStep => calls[s][i].x = client_data[s]
        /\ sinkOf[s] # NoCtx => sinkOf[s] = client_data[s]
        /\ \A i \in 1..Len(delivered[s]) : delivered[s][i].ctx = client_data[s]

\* the sink was invoked for an encoder opened with the second context
C14_Witness ==
    \E s \in Sessions :
        /\ client_data[s] = "sink2"
        /\ delivered[s] # <<>>
        /\ delivered[s][1].ctx = "sink2"

\* the close/free calls session t made on object o
ReleasesOn(t, o) == SelectSeq(calls[t], LAMBDA c : IsRelease(c) /\ c.h = o)

\* C15: sessions are independent: under every interleaving, the objects of
\* a session are closed and freed by that session's own calls only, so each
\* object's release count is what the session's own archive_close calls
\* made it; no step of one session changes an object of the other.
C15_SessionsIndependent ==
    \A o \in Objects :
        heap[o].closes + heap[o].frees =
            IF heap[o].alloc THEN Len(ReleasesOn(o[2], o)) ELSE 0

\* the objects of session s that are allocated and not freed
Live(s) == {k \in Kinds : heap[Obj(k, s)].alloc /\ heap[Obj(k, s)].frees = 0}

\* C16: when archive_init returns, the objects it has allocated and not
\* released are the encoder alone after a format or sink-open failure, the
\* encoder and the cursor after a disk-open failure, and all three after a
\* header-read failure or success; the encoder is allocated on every
\* execution, the cursor before the disk-open call and the entry before the
\* header-read call.
C16_AllocatedPrefix ==
    \A s \in Sessions :
        /\ (Returned(s) /\ closed[s] = 0) =>
              Live(s) = CASE FailStep(s) \in {FormatStep, SinkOpenStep} -> {"a"}
                          [] FailStep(s) = DiskOpenStep -> {"a", "disk"}
                          [] OTHER -> {"a", "disk", "entry"}
        /\ pc[s] \notin {"off", "idle"} => heap[Obj("a", s)].alloc
        /\ Called(s, DiskOpenStep) =>
              /\ Called(s, "archive_read_disk_new")
              /\ IndexOf(s, "archive_read_disk_new") < IndexOf(s, DiskOpenStep)
              /\ heap[Obj("disk", s)].alloc
        /\ Called(s, HeaderStep) =>
              /\ Called(s, "archive_entry_new")
              /\ IndexOf(s, "archive_entry_new") < IndexOf(s, HeaderStep)
              /\ heap[Obj("entry", s)].alloc

\* archive_init returned at a failed header read with all three objects live
C16_Witness ==
    \E s \in Sessions :
        /\ FailedInit(s)
        /\ FailStep(s) = HeaderStep
        /\ Live(s) = {"a", "disk", "entry"}

InInit(s) ==
    pc[s] \in {"set_format", "open", "last_block", "disk_open", "next_header", "assign"}

Unassigned(r) == r.a = UNINIT /\ r.disk = UNINIT /\ r.entry = UNINIT

\* C17: archive_init assigns ret.a, ret.disk and ret.entry only on the
\* success path, all three after the header read succeeded; up to there and
\* on every early return no field of ret but err has been assigned.
C17_HandlesAssignedOnSuccessOnly ==
    \A s \in Sessions :
        /\ InInit(s) => Unassigned(ret[s])
        /\ (Returned(s) /\ ret[s].err # ARCHIVE_OK) => Unassigned(ret[s])
        /\ (Returned(s) /\ ret[s].err = ARCHIVE_OK) =>
              /\ Succeeded(s, HeaderStep)
              /\ ret[s].a = a[s] /\ ret[s].a # UNINIT
              /\ ret[s].disk = disk[s] /\ ret[s].disk # UNINIT
              /\ ret[s].entry = entry[s] /\ ret[s].entry # UNINIT

\* archive_init returned at a failed header read with no handle field assigned
C17_Witness ==
    \E s \in Sessions :
        /\ FailedInit(s)
        /\ FailStep(s) = HeaderStep
        /\ Unassigned(ret[s])
        /\ a[s] = Obj("a", s) /\ disk[s] = Obj("disk", s)

CallsOf(s, fn) == SelectSeq(calls[s], LAMBDA c : c.fn = fn)

\* C18: every archive_close makes each of the five native calls once, on
\* the handle values it was given whatever they are (NULL included), and
\* returns ARCHIVE_OK whatever those calls returned.
C18_CloseUnconditional ==
    \A s \in Sessions :
        /\ \A fn \in CloseFns \cup FreeFns : Len(CallsOf(s, fn)) = closed[s]
        /\ closed[s] >= 1 =>
              /\ closeRet[s] = ARCHIVE_OK
              /\ \A c \in {CallsOf(s, "archive_entry_free")[i] : i \in 1..closed[s]} :
                    c.h = cookie[s].entry
              /\ \A c \in {CallsOf(s, fn)[i] :
                             fn \in {"archive_read_close", "archive_read_free"},
                             i \in 1..closed[s]} :
                    c.h = cookie[s].disk
              /\ \A c \in {CallsOf(s, fn)[i] :
                             fn \in {"archive_write_close", "archive_write_free"},
                             i \in 1..closed[s]} :
                    c.h = cookie[s].a

\* archive_close returned ARCHIVE_OK although archive_write_close failed
C18_Witness ==
    \E s \in Sessions :
        /\ closed[s] >= 1
        /\ closeRet[s] = ARCHIVE_OK
        /\ \E i \in 1..Len(calls[s]) :
              calls[s][i].fn = "archive_write_close" /\ calls[s][i].r # ARCHIVE_OK

\* archive_close made its calls on NULL handles
C18_WitnessNull ==
    \E s \in Sessions :
        /\ closed[s] >= 1
        /\ cookie[s].a = NULL /\ cookie[s].disk = NULL /\ cookie[s].entry = NULL
        /\ Len(Releases(s)) = Len(ReleaseOrder) * closed[s]

=============================================================================
